---------------------------- MODULE Spec2Model ----------------------------
(***************************************************************************)
(* State-machine model of src/src/blue.rs: a BLE peripheral made of three  *)
(* cooperatively scheduled futures joined by join3 inside run():           *)
(*   ble_task        drives the host runner,                               *)
(*   gatt_task       serves GATT Read/Write events,                        *)
(*   advertise_task  advertises, accepts one connection and notifies an    *)
(*                   8-bit tick every 2 seconds while connected.           *)
(* One action is one atomic run of a future between two suspension points  *)
(* (.await), which is the granularity of the cooperative executor.         *)
(* Results of calls into the host library (Result values, the link state)  *)
(* are inputs chosen nondeterministically.                                 *)
(***************************************************************************)
EXTENDS Integers, Sequences, FiniteSets, TLC

VARIABLES
    run_pc,         \* run(): "awaiting" the join3 future, "returned", "panicked"
    ble_pc,         \* ble_task: "running" | "done"
    gatt_pc,        \* gatt_task: "next" (suspended in server.next()) | "done" | "panicked"
    event,          \* the GATT event gatt_task handled last
    log,            \* the log records gatt_task emitted for that event
    table,          \* stored values of the Server's characteristics
    adv_pc,         \* advertise_task: "start" | "advertising" | "accepting" | "timer" | "notifying" | "done"
    conn,           \* the Connection held by advertise_task: "none" | "connected" | "disconnected"
    tick,           \* the u8 local `tick` of advertise_task
    sent,           \* payload of the latest server.notify call on the held connection
    notify_result,  \* outcome of the latest server.notify call on the held connection
    adv_result,     \* the Result advertise_task returned: "pending" until it returns
    name_len,       \* length of the Complete Local Name given to encode_slice
    had_conn,       \* history: an earlier connection was accepted and dropped
    reads,          \* history: consecutive served Reads of the application value (up to MaxReads)
    last_written    \* history: the value last written to the application characteristic

vars == <<run_pc, ble_pc, gatt_pc, event, log, table, adv_pc, conn, tick, sent,
          notify_result, adv_result, name_len, had_conn, reads, last_written>>

gatt_vars == <<gatt_pc, event, log, table, reads, last_written>>
adv_vars == <<adv_pc, conn, tick, sent, notify_result, adv_result, name_len, had_conn>>

---------------------------------------------------------------------------
(* Bounds and program constants *)

\* Written byte values are sampled as 0..MaxLowValue together with 42 and 255.
MaxLowValue == 0

\* Consecutive Reads of the application value are counted up to MaxReads.
MaxReads == 2

\* Local names of 0..MaxNameLen bytes are tried by the encoding specification.
MaxNameLen == 24

\* Length of b"Trouble".
NameLen == 7

\* Max number of connections.
CONNECTIONS_MAX == 1

\* u8 has 256 values.
U8Mod == 256

\* Size of the advertising data buffer.
ADV_DATA_SIZE == 31

\* Stands for "no byte": an absent payload or value.
NoValue == 0 - 1

Byte == 0 .. (U8Mod - 1)

SampleValues == (0 .. MaxLowValue) \cup {42, U8Mod - 1}

\* Characteristic handles an event can carry: the two of the Server and one of
\* the Generic Access service.
Handles == {"appearance", "level", "byte"}

\* server.my_service.byte
AppHandle == "byte"

\* server.battery_service.level
LevelHandle == "level"

---------------------------------------------------------------------------
(* Pure helpers *)

Rec(k, h, v) == [kind |-> k, handle |-> h, value |-> v]

NoEvent == [kind |-> "none", handle |-> "none", found |-> TRUE]

\* Faulty variant: the comparison accepts every characteristic of the Server.
IsAppHandle_AnyServerHandle(h) == h \in {AppHandle, LevelHandle}

\* handle == server.my_service.byte
IsAppHandle(h) == h = AppHandle

\* The value server.get passes to its closure.
StoredValue(tbl, h) == IF h \in DOMAIN tbl THEN tbl[h] ELSE NoValue

\* Faulty variant: the two branches of the closure are swapped.
WriteClosure_Swapped(h, value) ==
    IF h = AppHandle
    THEN Rec("generic_write", h, NoValue)
    ELSE Rec("app_write", h, value)

\* The closure of the Write arm.
WriteClosure(h, value) ==
    IF IsAppHandle(h)
    THEN Rec("app_write", h, value)
    ELSE Rec("generic_write", h, NoValue)

\* Faulty variant: the Result of server.get is unwrapped, as in the Read arm.
WriteArm_Unwrap(tbl, h, found) ==
    <<Rec("pre_write", h, NoValue)>> \o
    (IF found
     THEN <<WriteClosure(h, StoredValue(tbl, h))>>
     ELSE <<Rec("panic", h, NoValue)>>)

\* The Write arm: pre-write notice, server.get with the closure, error report.
WriteArm(tbl, h, found) ==
    <<Rec("pre_write", h, NoValue)>> \o
    (IF found
     THEN <<WriteClosure(h, StoredValue(tbl, h))>>
     ELSE <<Rec("write_error", h, NoValue)>>)

\* The Read arm: the log it emits; "panic" stands for the unwrap() of an Err.
ReadArm(tbl, h, found) ==
    IF IsAppHandle(h)
    THEN IF found
         THEN <<Rec("app_read", h, StoredValue(tbl, h))>>
         ELSE <<Rec("panic", h, NoValue)>>
    ELSE <<Rec("generic_read", h, NoValue)>>

Panics(records) == \E i \in 1 .. Len(records) : records[i].kind = "panic"

\* Faulty variant: saturating instead of wrapping addition.
WrappingAdd_Saturating(t) == IF t + 1 >= U8Mod THEN U8Mod - 1 ELSE t + 1

\* tick.wrapping_add(1)
WrappingAdd(t) == (t + 1) % U8Mod

\* Faulty variant: the loop condition is always true.
IsConnected_Always(c) == TRUE

\* conn.is_connected()
IsConnected(c) == c = "connected"

\* Faulty variant: the loop body omits the timer wait and notifies at once.
WhileTest_NoTimer(c) ==
    IF c = "connected"
    THEN [pc |-> "notifying", conn |-> c]
    ELSE [pc |-> "advertising", conn |-> "none"]

\* Faulty variant: the task returns Ok(()) when the connection is lost.
WhileTest_ReturnOnDisconnect(c) ==
    IF c = "connected"
    THEN [pc |-> "timer", conn |-> c]
    ELSE [pc |-> "done", conn |-> "none"]

\* Faulty variant: the connection outlives the loop iteration that accepted it.
WhileTest_KeepConn(c) ==
    IF c = "connected"
    THEN [pc |-> "timer", conn |-> c]
    ELSE [pc |-> "advertising", conn |-> c]

\* The test of `while conn.is_connected()` and what follows it without a
\* suspension point: the timer is started, or the connection is dropped and the
\* outer loop issues the next advertise call.
WhileTest(c) ==
    IF IsConnected(c)
    THEN [pc |-> "timer", conn |-> c]
    ELSE [pc |-> "advertising", conn |-> "none"]

\* join3: the joined future is ready only when all three futures are.
Join3(b, g, a) ==
    IF b = "done" /\ g = "done" /\ a = "done" THEN "returned" ELSE "awaiting"

\* Length of one AD structure: length byte, type byte, payload.
AdLen(payloadLen) == 2 + payloadLen

\* Payload lengths of Flags (1 byte), ServiceUuids16 with one UUID (2 bytes)
\* and CompleteLocalName (the n bytes of the name).
AdPayloads(n) == <<1, 2, n>>

RECURSIVE EncodedLen(_)
EncodedLen(s) == IF s = <<>> THEN 0 ELSE AdLen(Head(s)) + EncodedLen(Tail(s))

\* AdStructure::encode_slice into adv_data: Err when the buffer is too small.
EncodeOk(s) == EncodedLen(s) <= ADV_DATA_SIZE

---------------------------------------------------------------------------
(* Initial state: run() has built the table and the server and starts
   awaiting join3; no future has been polled yet. *)

InitState ==
    /\ run_pc = "awaiting"
    /\ ble_pc = "running"
    /\ gatt_pc = "next"
    /\ event = NoEvent
    /\ log = <<>>
    /\ table = [level |-> 0, byte |-> 0]
    /\ adv_pc = "start"
    /\ conn = "none"
    /\ tick = 0
    /\ sent = NoValue
    /\ notify_result = "none"
    /\ adv_result = "pending"
    /\ had_conn = FALSE
    /\ reads = 0
    /\ last_written = 0

\* The program as written: the local name is b"Trouble".
Init == InitState /\ name_len = NameLen

\* The program with a local name of any length up to MaxNameLen.
InitEncode == InitState /\ name_len \in 0 .. MaxNameLen

\* The join3 future is polled only while run() awaits it.
Polling == run_pc = "awaiting"

---------------------------------------------------------------------------
(* ble_task *)

\* runner.run() returns (its Result is the task's result).
BleExit ==
    /\ Polling
    /\ ble_pc = "running"
    /\ ble_pc' = "done"
    /\ run_pc' = Join3(ble_pc', gatt_pc, adv_pc)
    /\ UNCHANGED <<gatt_vars, adv_vars>>

---------------------------------------------------------------------------
(* gatt_task *)

\* server.next() yields Ok(Write): the host has stored a written value of the
\* writable characteristic; the arm logs.
GattWrite(h, v, found) ==
    /\ Polling
    /\ gatt_pc = "next"
    /\ table' = IF h = AppHandle THEN [table EXCEPT ![h] = v] ELSE table
    /\ event' = [kind |-> "Write", handle |-> h, found |-> found]
    /\ log' = WriteArm(table', h, found)
    /\ reads' = 0
    /\ last_written' = IF h = AppHandle THEN v ELSE last_written
    /\ UNCHANGED <<run_pc, ble_pc, gatt_pc, adv_vars>>

\* Faulty variant: serving a Read of the application value clears it.
GattRead_ReadAndClear(h, found) ==
    /\ run_pc = "awaiting"
    /\ gatt_pc = "next"
    /\ event' = [kind |-> "Read", handle |-> h, found |-> found]
    /\ log' = ReadArm(table, h, found)
    /\ table' = IF h = AppHandle /\ found THEN [table EXCEPT ![h] = 0] ELSE table
    /\ gatt_pc' = IF Panics(log') THEN "panicked" ELSE "next"
    /\ run_pc' = IF Panics(log') THEN "panicked" ELSE run_pc
    /\ reads' = IF h = AppHandle /\ found
                THEN (IF reads < MaxReads THEN reads + 1 ELSE reads)
                ELSE 0
    /\ UNCHANGED <<ble_pc, last_written, adv_vars>>

\* server.next() yields Ok(Read).
GattRead(h, found) ==
    /\ Polling
    /\ gatt_pc = "next"
    /\ event' = [kind |-> "Read", handle |-> h, found |-> found]
    /\ log' = ReadArm(table, h, found)
    /\ gatt_pc' = IF Panics(log') THEN "panicked" ELSE "next"
    /\ run_pc' = IF Panics(log') THEN "panicked" ELSE run_pc
    /\ reads' = IF h = AppHandle /\ found
                THEN (IF reads < MaxReads THEN reads + 1 ELSE reads)
                ELSE 0
    /\ UNCHANGED <<ble_pc, table, last_written, adv_vars>>

\* server.next() yields Err.
GattStreamError ==
    /\ Polling
    /\ gatt_pc = "next"
    /\ event' = [kind |-> "Err", handle |-> "none", found |-> TRUE]
    /\ log' = <<Rec("stream_error", "none", NoValue)>>
    /\ reads' = 0
    /\ UNCHANGED <<run_pc, ble_pc, gatt_pc, table, last_written, adv_vars>>

GattWriteEvent(values) ==
    \E h \in Handles, found \in BOOLEAN :
        \E v \in (IF h = AppHandle THEN values ELSE {NoValue}) : GattWrite(h, v, found)

GattReadEvent == \E h \in Handles, found \in BOOLEAN : GattRead(h, found)

---------------------------------------------------------------------------
(* advertise_task *)

\* Faulty variant: the Result of encode_slice is discarded.
AdvStart_IgnoreEncodeError ==
    /\ run_pc = "awaiting"
    /\ adv_pc = "start"
    /\ adv_pc' = "advertising"
    /\ UNCHANGED <<run_pc, ble_pc, gatt_vars, conn, tick, sent, notify_result,
                   adv_result, name_len, had_conn>>

\* First poll: encode the payload (`?` returns its error), then issue the
\* first advertise call.
AdvStart ==
    /\ Polling
    /\ adv_pc = "start"
    /\ adv_pc' = IF EncodeOk(AdPayloads(name_len)) THEN "advertising" ELSE "done"
    /\ adv_result' = IF EncodeOk(AdPayloads(name_len)) THEN adv_result ELSE "encode_err"
    /\ run_pc' = Join3(ble_pc, gatt_pc, adv_pc')
    /\ UNCHANGED <<ble_pc, gatt_vars, conn, tick, sent, notify_result, name_len, had_conn>>

\* peripheral.advertise(..).await? completes; on Ok accept() is awaited.
AdvertiseDone(ok) ==
    /\ Polling
    /\ adv_pc = "advertising"
    /\ adv_pc' = IF ok THEN "accepting" ELSE "done"
    /\ adv_result' = IF ok THEN adv_result ELSE "advertise_err"
    /\ run_pc' = Join3(ble_pc, gatt_pc, adv_pc')
    /\ UNCHANGED <<ble_pc, gatt_vars, conn, tick, sent, notify_result, name_len, had_conn>>

\* advertiser.accept().await? fails.
AcceptFail ==
    /\ Polling
    /\ adv_pc = "accepting"
    /\ adv_pc' = "done"
    /\ adv_result' = "accept_err"
    /\ run_pc' = Join3(ble_pc, gatt_pc, adv_pc')
    /\ UNCHANGED <<ble_pc, gatt_vars, conn, tick, sent, notify_result, name_len, had_conn>>

\* Faulty variant: `tick` is declared outside the outer loop and not reset.
AcceptOk_KeepTick(up) ==
    /\ run_pc = "awaiting"
    /\ adv_pc = "accepting"
    /\ tick' = tick
    /\ sent' = NoValue
    /\ notify_result' = "none"
    /\ LET next == WhileTest(IF up THEN "connected" ELSE "disconnected")
       IN  /\ adv_pc' = next.pc
           /\ conn' = next.conn
           /\ adv_result' = IF next.pc = "done" THEN "ok" ELSE adv_result
           /\ had_conn' = (had_conn \/ next.conn = "none")
    /\ UNCHANGED <<run_pc, ble_pc, gatt_vars, name_len>>

\* advertiser.accept().await? yields a connection whose link is up or already
\* down; tick = 0; first test of the while loop.
AcceptOk(up) ==
    /\ Polling
    /\ adv_pc = "accepting"
    /\ tick' = 0
    /\ sent' = NoValue
    /\ notify_result' = "none"
    /\ LET next == WhileTest(IF up THEN "connected" ELSE "disconnected")
       IN  /\ adv_pc' = next.pc
           /\ conn' = next.conn
           /\ adv_result' = IF next.pc = "done" THEN "ok" ELSE adv_result
           /\ had_conn' = (had_conn \/ next.conn = "none")
    /\ UNCHANGED <<run_pc, ble_pc, gatt_vars, name_len>>

\* Faulty variant: the tick is sent before it is incremented.
TimerExpired_SendThenIncrement ==
    /\ run_pc = "awaiting"
    /\ adv_pc = "timer"
    /\ sent' = tick
    /\ tick' = (tick + 1) % U8Mod
    /\ notify_result' = "pending"
    /\ adv_pc' = "notifying"
    /\ UNCHANGED <<run_pc, ble_pc, gatt_vars, conn, adv_result, name_len, had_conn>>

\* Timer::after(2 s) expires: increment tick, log, call server.notify.
TimerExpired ==
    /\ Polling
    /\ adv_pc = "timer"
    /\ tick' = WrappingAdd(tick)
    /\ sent' = tick'
    /\ notify_result' = "pending"
    /\ adv_pc' = "notifying"
    /\ UNCHANGED <<run_pc, ble_pc, gatt_vars, conn, adv_result, name_len, had_conn>>

\* Faulty variant: the Result of server.notify is propagated with `?`.
NotifyDone_ExitOnErr(ok) ==
    /\ run_pc = "awaiting"
    /\ adv_pc = "notifying"
    /\ LET next == IF ok THEN WhileTest(conn) ELSE [pc |-> "done", conn |-> "none"]
       IN  /\ adv_pc' = next.pc
           /\ conn' = next.conn
           /\ notify_result' = IF next.conn = "none" THEN "none"
                               ELSE IF ok THEN "ok" ELSE "err"
           /\ sent' = IF next.conn = "none" THEN NoValue ELSE sent
           /\ had_conn' = (had_conn \/ next.conn = "none")
    /\ run_pc' = Join3(ble_pc, gatt_pc, adv_pc')
    /\ UNCHANGED <<ble_pc, gatt_vars, tick, adv_result, name_len>>

\* server.notify(..).await completes; its Result is discarded; next while test.
NotifyDone(ok) ==
    /\ Polling
    /\ adv_pc = "notifying"
    /\ LET next == WhileTest(conn)
       IN  /\ adv_pc' = next.pc
           /\ conn' = next.conn
           /\ notify_result' = IF next.conn = "none" THEN "none"
                               ELSE IF ok THEN "ok" ELSE "err"
           /\ sent' = IF next.conn = "none" THEN NoValue ELSE sent
           /\ adv_result' = IF next.pc = "done" THEN "ok" ELSE adv_result
           /\ had_conn' = (had_conn \/ next.conn = "none")
    /\ UNCHANGED <<run_pc, ble_pc, gatt_vars, tick, name_len>>

\* The link of the held connection drops (the central disconnects).
LinkDrop ==
    /\ Polling
    /\ conn = "connected"
    /\ conn' = "disconnected"
    /\ UNCHANGED <<run_pc, ble_pc, gatt_vars, adv_pc, tick, sent, notify_result,
                   adv_result, name_len, had_conn>>

AdvertiseResult == \E ok \in BOOLEAN : AdvertiseDone(ok)

AcceptResult == AcceptFail \/ \E up \in BOOLEAN : AcceptOk(up)

NotifyResult == \E ok \in BOOLEAN : NotifyDone(ok)

---------------------------------------------------------------------------

AdvNext == AdvStart \/ AdvertiseResult \/ AcceptResult \/ TimerExpired \/ NotifyResult

Next ==
    \/ BleExit
    \/ GattWriteEvent(SampleValues)
    \/ GattReadEvent
    \/ GattStreamError
    \/ AdvNext
    \/ LinkDrop

Spec == Init /\ [][Next]_vars

TypeOK ==
    /\ run_pc \in {"awaiting", "returned", "panicked"}
    /\ ble_pc \in {"running", "done"}
    /\ gatt_pc \in {"next", "done", "panicked"}
    /\ adv_pc \in {"start", "advertising", "accepting", "timer", "notifying", "done"}
    /\ conn \in {"none", "connected", "disconnected"}
    /\ tick \in Byte
    /\ sent \in Byte \cup {NoValue}
    /\ notify_result \in {"none", "pending", "ok", "err"}
    /\ table \in [{"level", "byte"} -> Byte]
    /\ adv_result \in {"pending", "ok", "encode_err", "advertise_err", "accept_err"}
    /\ name_len \in 0 .. MaxNameLen
    /\ had_conn \in BOOLEAN
    /\ reads \in 0 .. MaxReads
    /\ last_written \in Byte


\* The timer fires and a started notify completes (the claims' fairness); the
\* executor polls a ready future.
FairSpec == Spec /\ WF_vars(TimerExpired) /\ WF_vars(NotifyResult)

\* gatt_task alone, with every byte value a central can write.
NextGatt == GattWriteEvent(Byte) \/ GattReadEvent \/ GattStreamError

SpecGatt == Init /\ [][NextGatt]_vars

\* advertise_task and the link alone, for every length of the local name.
NextEncode == AdvNext \/ LinkDrop

SpecEncode == InitEncode /\ [][NextEncode]_vars

---------------------------------------------------------------------------
(* Vocabulary of the properties *)

LogKinds == {log[i].kind : i \in 1 .. Len(log)}

AppKinds == {"app_write", "app_read"}

\* This step calls server.notify.
NotifyAttempt ==
    /\ adv_pc' = "notifying"
    /\ (adv_pc # "notifying" \/ sent' # sent \/ notify_result' # notify_result)

\* This step is taken by advertise_task.
AdvStep == adv_vars' # adv_vars /\ adv_pc' # adv_pc

---------------------------------------------------------------------------
(* C1 *)

\* C1 (as claimed): once any of the three joined tasks has exited, run() has
\* returned. Refuted: join3 completes only when all three futures have, and
\* gatt_task never does.
C1_AnyExitEndsRun ==
    (ble_pc = "done" \/ gatt_pc = "done" \/ adv_pc = "done") => run_pc = "returned"

(* C2 *)

\* C2 (as claimed): a Read event whose attribute lookup fails leaves gatt_task
\* alive and waiting for the next event, with the failure reported and no panic.
\* Refuted: the Read arm unwraps the Result of server.get.
C2_ReadLookupFailureNonFatal ==
    (event.kind = "Read" /\ ~event.found) =>
        /\ gatt_pc = "next"
        /\ run_pc # "panicked"
        /\ "panic" \notin LogKinds

(* C3 *)

\* C3 (as claimed): server.notify is called only at a moment when the
\* connection is connected. Refuted: the link can drop during the timer wait,
\* and the loop does not test is_connected() again before notifying.
C3_NotifyOnlyWhileConnected ==
    [][NotifyAttempt => conn = "connected"]_vars

\* What the loop does guarantee: every call of server.notify is made on the
\* expiry of a timer wait, and a timer wait is entered only when is_connected()
\* has just returned true.
NotifyOnlyAfterConnectedTest ==
    [][ /\ (NotifyAttempt => adv_pc = "timer")
        /\ (adv_pc' = "timer" /\ adv_pc # "timer" => conn' = "connected") ]_vars

(* C4 *)

\* C4: notify attempts are sequential and paced by the timer: an attempt starts
\* only on a timer expiry (never while an attempt is in flight), every timer
\* expiry starts exactly one attempt, and a completed attempt leads to the next
\* timer wait or out of the connected loop, never straight to another attempt.
C4_NotifyPacedByTimer ==
    [][ /\ (NotifyAttempt => adv_pc = "timer" /\ notify_result # "pending")
        /\ (adv_pc = "timer" /\ AdvStep => NotifyAttempt /\ notify_result' = "pending")
        /\ (adv_pc = "notifying" /\ AdvStep =>
                adv_pc' \in {"timer", "advertising"} /\ notify_result' # "pending") ]_vars

\* A second attempt of one connection is in flight.
C4_Witness ==
    adv_pc = "notifying" /\ sent = 2 /\ conn = "connected"

(* C5 *)

\* C5: a notify that completes (with an error as with success) while the
\* connection is connected leads to the next timer wait with the connection held
\* and the counter kept; and the timer expiry after a failed notify attempts a
\* notification carrying the next counter value.
C5_FailedNotifyKeepsLoop ==
    [][ /\ (adv_pc = "notifying" /\ conn = "connected" /\ AdvStep =>
                adv_pc' = "timer" /\ conn' = "connected" /\ tick' = tick)
        /\ (adv_pc = "timer" /\ notify_result = "err" /\ AdvStep =>
                adv_pc' = "notifying" /\ sent' = (sent + 1) % 256) ]_vars

\* The attempt after a failed one is in flight.
C5_Witness ==
    adv_pc = "timer" /\ notify_result = "err" /\ conn = "connected" /\ sent = 3

(* C6 *)

\* C6 (as claimed): whenever the held connection is no longer connected,
\* advertise_task eventually issues a new advertise call. Refuted under
\* FairSpec: a panic of gatt_task (C2) aborts the joined future.
C6_LinkDropLeadsToAdvertise ==
    (conn = "disconnected") ~> (adv_pc = "advertising")

(* C7 *)

\* C7: the first notification attempted on a connection carries 1 and every
\* later one carries the previous payload plus 1 modulo 256.
C7_NotifyCarriesSuccessor ==
    [][NotifyAttempt => sent' = IF sent = NoValue THEN 1 ELSE (sent + 1) % 256]_vars

\* The first notification of a connection is in flight.
C7_Witness ==
    adv_pc = "notifying" /\ sent = 1 /\ conn = "connected"

(* C8 *)

\* C8: after the notification carrying 255 the next timer expiry attempts one
\* carrying 0, the one after it carries 1, and completing either of them while
\* connected keeps the loop waiting on the timer.
C8_CounterWraps ==
    [][ /\ (adv_pc = "timer" /\ sent = 255 /\ AdvStep =>
                NotifyAttempt /\ sent' = 0 /\ tick' = 0)
        /\ (adv_pc = "timer" /\ sent = 0 /\ AdvStep =>
                NotifyAttempt /\ sent' = 1 /\ tick' = 1)
        /\ (adv_pc = "notifying" /\ sent \in {255, 0} /\ conn = "connected" /\ AdvStep =>
                adv_pc' = "timer" /\ sent' = sent) ]_vars

\* The notification after the wrap is waited for: the one carrying 0 completed.
C8_Witness ==
    adv_pc = "timer" /\ sent = 0 /\ conn = "connected"

(* C9 *)

\* C9 (as claimed): every Write event on the application characteristic logs
\* the application-specific write record carrying the stored value. Refuted:
\* when server.get returns Err the closure is not run.
C9_AppWriteAlwaysLogged ==
    (event.kind = "Write" /\ event.handle = AppHandle) =>
        \E i \in 1 .. Len(log) : log[i] = Rec("app_write", AppHandle, table.byte)

\* C9 (amended): a Write event on the application characteristic whose lookup
\* succeeds logs, for every stored byte value, the pre-write notice and the
\* application-specific write record carrying that value; when the lookup
\* fails it logs the pre-write notice and the error report.
C9_AppWriteLoggedWhenFound ==
    (event.kind = "Write" /\ event.handle = AppHandle) =>
        /\ table.byte \in Byte
        /\ log = IF event.found
                 THEN <<Rec("pre_write", AppHandle, NoValue),
                        Rec("app_write", AppHandle, table.byte)>>
                 ELSE <<Rec("pre_write", AppHandle, NoValue),
                        Rec("write_error", AppHandle, NoValue)>>

\* 0xFF was written to the application characteristic and logged.
C9_Witness ==
    /\ event = [kind |-> "Write", handle |-> AppHandle, found |-> TRUE]
    /\ table.byte = 255
    /\ log[2] = Rec("app_write", AppHandle, 255)

(* C10 *)

\* C10: a Read or Write event on a handle other than the application
\* characteristic produces no application-specific record and no value: a Read
\* logs exactly the generic read notice, a Write the pre-write notice followed
\* by the generic write notice (or the error report when the lookup fails).
C10_OtherHandlesGenericOnly ==
    (event.kind \in {"Read", "Write"} /\ event.handle # AppHandle) =>
        /\ LogKinds \cap AppKinds = {}
        /\ \A i \in 1 .. Len(log) : log[i].value = NoValue /\ log[i].handle = event.handle
        /\ gatt_pc = "next"
        /\ event.kind = "Read" => LogKinds = {"generic_read"} /\ Len(log) = 1
        /\ event.kind = "Write" =>
               /\ Len(log) = 2
               /\ log[1].kind = "pre_write"
               /\ log[2].kind = IF event.found THEN "generic_write" ELSE "write_error"

\* A Write event on the Battery Level characteristic was served.
C10_Witness ==
    event = [kind |-> "Write", handle |-> LevelHandle, found |-> TRUE]

(* C11 *)

\* C11: a Write event whose attribute lookup fails is reported by the error
\* record and nothing else goes wrong: no panic, gatt_task is suspended in
\* server.next() again and the joined future is still polled, so the events
\* that follow are served.
C11_WriteLookupFailureNonFatal ==
    (event.kind = "Write" /\ ~event.found) =>
        /\ log = <<Rec("pre_write", event.handle, NoValue),
                   Rec("write_error", event.handle, NoValue)>>
        /\ gatt_pc = "next"
        /\ run_pc = "awaiting"

\* A Write on the application characteristic failed its lookup and was served.
C11_Witness ==
    /\ event = [kind |-> "Write", handle |-> AppHandle, found |-> FALSE]
    /\ gatt_pc = "next"

(* C12 *)

\* C12 (as claimed): an event-stream error is logged and gatt_task waits for
\* the next event, and gatt_task is always either waiting for an event or
\* ended by the end of the event stream. Refuted: the unwrap() of the Read arm
\* (C2) ends gatt_task on a single event.
C12_StopsOnlyOnStreamEnd ==
    /\ event.kind = "Err" =>
           log = <<Rec("stream_error", "none", NoValue)>> /\ gatt_pc = "next"
    /\ gatt_pc \in {"next", "done"}

\* The Err arm on its own: the error is logged and gatt_task waits again.
StreamErrorLoggedAndLoopContinues ==
    event.kind = "Err" =>
        log = <<Rec("stream_error", "none", NoValue)>> /\ gatt_pc = "next"

(* C13 *)

AdvErrors == {"encode_err", "advertise_err", "accept_err"}

\* C13: advertise_task has returned exactly when encode_slice, advertise or
\* accept has returned an error, and what it returned is that error: it returns
\* only from the encoding step, from a pending advertise call or from a pending
\* accept call, never from the connected loop (link drop, notify result,
\* counter wrap), and once returned it stays so.
C13_ReturnsOnlyFatalErrors ==
    /\ [](adv_pc = "done" <=> adv_result \in AdvErrors)
    /\ [][ /\ (adv_pc # "done" /\ adv_pc' = "done" =>
                  \/ adv_pc = "start" /\ adv_result' = "encode_err"
                  \/ adv_pc = "advertising" /\ adv_result' = "advertise_err"
                  \/ adv_pc = "accepting" /\ adv_result' = "accept_err")
           /\ (adv_pc \in {"timer", "notifying"} => adv_pc' # "done")
           /\ (adv_pc = "done" => adv_pc' = "done" /\ adv_result' = adv_result) ]_vars

\* After a whole connection (notified, link dropped) the next accept failed.
C13_Witness ==
    adv_pc = "done" /\ adv_result = "accept_err" /\ had_conn /\ tick = 2

(* C14 *)

\* Number of Connection objects alive.
ConnCount == IF conn = "none" THEN 0 ELSE 1

\* C14: at most CONNECTIONS_MAX = 1 connection exists; while advertise_task is
\* before, in or after an advertise/accept it holds no connection (that of the
\* previous cycle has been dropped), and it holds one throughout the connected
\* loop.
C14_AtMostOneConnection ==
    /\ ConnCount <= CONNECTIONS_MAX
    /\ adv_pc \in {"start", "advertising", "accepting", "done"} => conn = "none"
    /\ adv_pc \in {"timer", "notifying"} => conn # "none"

\* A second accept is pending after the first connection was dropped.
C14_Witness ==
    adv_pc = "accepting" /\ had_conn /\ tick = 1 /\ conn = "none"

(* C15 *)

\* C15: the payload of Flags, one 16-bit UUID and the 7-byte name "Trouble" is
\* 3 + 4 + 9 = 16 bytes and is encoded without error; for a name of any length,
\* whenever an advertise call has been issued the encoded payload (9 bytes plus
\* the name) is at most 31 bytes, and when it would exceed 31 bytes
\* advertise_task returns the encoding error without ever advertising or
\* connecting.
C15_PayloadFitsOrEncodeFails ==
    /\ name_len = 7 => (3 + 4 + (2 + name_len) = 16 /\ adv_result # "encode_err")
    /\ (adv_pc \in {"advertising", "accepting", "timer", "notifying"}
            \/ adv_result \in {"advertise_err", "accept_err"} \/ had_conn)
         => 9 + name_len <= 31
    /\ 9 + name_len > 31 =>
           /\ adv_pc \in {"start", "done"}
           /\ adv_pc = "done" => adv_result = "encode_err"
           /\ conn = "none"
    /\ adv_result = "encode_err" => 9 + name_len > 31

\* A 23-byte name makes 32 bytes: the encoding failed and the task returned.
C15_Witness ==
    name_len = 23 /\ adv_pc = "done" /\ adv_result = "encode_err"

(* C16 *)

\* C16: serving Reads does not change the stored value: after one or more
\* consecutive Reads of the application characteristic (no Write or other event
\* in between) the stored value is still the last value written, and each of
\* these Reads logged exactly that value.
C16_ReadsKeepLastWritten ==
    /\ reads >= 1 <=> event = [kind |-> "Read", handle |-> AppHandle, found |-> TRUE]
    /\ reads >= 1 =>
           /\ table.byte = last_written
           /\ log = <<Rec("app_read", AppHandle, last_written)>>

\* Two consecutive Reads after 0x2A was written.
C16_Witness ==
    reads = 2 /\ last_written = 42 /\ log = <<Rec("app_read", AppHandle, 42)>>

(* C17 *)

\* This step is taken by gatt_task.
GattStep == gatt_vars' # gatt_vars

\* C17 (as claimed): every step of gatt_task leaves advertise_task as it was:
\* its phase, connection and counter unchanged and the task still running.
\* Refuted: the unwrap() panic of the Read arm (C2) aborts the joined future,
\* and with it advertise_task.
C17_GattStepsLeaveAdvertiseTask ==
    [][GattStep => adv_vars' = adv_vars /\ run_pc' = run_pc]_vars

\* What does hold: no step of gatt_task assigns a variable of advertise_task.
GattStepsKeepAdvertiseVariables ==
    [][GattStep => adv_vars' = adv_vars]_vars

(* C19 *)

\* C19: the counter belongs to the connection: every accepted connection,
\* also one that follows an earlier connection, starts with the counter at 0
\* whatever the earlier one had reached, and its first notification carries 1.
C19_CounterResetPerConnection ==
    /\ []((adv_pc = "timer" /\ sent = NoValue) => tick = 0)
    /\ [][ /\ (adv_pc = "accepting" /\ AdvStep /\ adv_pc' # "done" => tick' = 0)
           /\ (adv_pc = "timer" /\ sent = NoValue /\ AdvStep => sent' = 1 /\ tick' = 1) ]_vars

\* The first notification of a connection that follows an earlier one.
C19_Witness ==
    had_conn /\ adv_pc = "notifying" /\ sent = 1 /\ conn = "connected"

(* C20 *)

\* C20: a notify attempt made on a connection whose link has dropped is the
\* last one: when it completes advertise_task leaves the loop, drops the
\* connection and advertises again (and a dropped link never comes back); and
\* no notify is attempted or in flight from an advertise call to the end of the
\* accept that follows it.
C20_AtMostOneNotifyAfterDrop ==
    /\ [](adv_pc \in {"advertising", "accepting"} => notify_result # "pending")
    /\ [][ /\ (adv_pc = "notifying" /\ conn = "disconnected" /\ AdvStep =>
                  adv_pc' = "advertising" /\ conn' = "none")
           /\ (conn = "disconnected" => conn' \in {"disconnected", "none"})
           /\ (adv_pc \in {"advertising", "accepting"} => ~NotifyAttempt) ]_vars

\* The loop was left after a connection on which one notify was attempted.
C20_Witness ==
    adv_pc = "advertising" /\ had_conn /\ tick = 1 /\ conn = "none"

=============================================================================
